---- MODULE Spec2Model ----
(***************************************************************************)
(* Resumable grid scan of fetch_city_panoramas.py: the progress file, the  *)
(* rotating shard files, the request counter and the raster sweep, with    *)
(* process termination and restart.                                        *)
(*                                                                         *)
(* Coordinates are counted in units of the sweep step (step = 0.001), so   *)
(* the float 0.0 is the integer 0 and "current_lng += step" is "+ 1".      *)
(* A file is a record [st, data]: st = "absent" (no such file), "corrupt"  *)
(* (exists, json.load raises JSONDecodeError; an empty file just opened    *)
(* with mode "w" is such a file) or "ok" (data is the parsed mapping).     *)
(***************************************************************************)
EXTENDS Integers, Sequences, FiniteSets, TLC

\* ------------------------------------------------------------- bounds
LngSteps == 1        \* columns of a region's grid right of its minimum longitude
FileLimit == 2       \* stands for save_coord's default file_limit (500)
MaxCrashes == 1      \* terminations of the scanning process that are explored
MaxRequests == 4     \* cap of the persisted request counter
MaxLimit == 2        \* largest file_limit of the direct save_coord calls
MaxCalls == 3        \* direct save_coord / save_progress calls that are explored

Procs == {"p1", "p2"}
Scanner == "p1"
Reader == "p2"

\* ------------------------------------------------------------- files
EmptyMap == [x \in {} |-> x]
NoFile == [st |-> "absent", data |-> EmptyMap]
CorruptFile == [st |-> "corrupt", data |-> EmptyMap]
OkFile(d) == [st |-> "ok", data |-> d]

\* os.path.exists
Exists(f) == f.st # "absent"

\* json.load: the mapping, or raises JSONDecodeError
Parses(f) == f.st = "ok"

\* dict.update / d[k] = v
DictPut(d, k, v) == [x \in (DOMAIN d) \cup {k} |-> IF x = k THEN v ELSE d[x]]

\* f"{lat},{lng}": repr of a float is one-to-one on the grid's values
Key(lat, lng) == <<lat, lng>>

\* ------------------------------------------------------------- catalog
\* city-dashboard.json: a list of entries, the first nested region overriding
\* the top-level bounds. Each grid has two rows. One grid holds 0.0 inside it,
\* one does not; one name holds a '.', as "St. Louis" would; the longitudes of
\* one start at 4.2, where adding the step in floating point overshoots.
Catalog ==
  << [city |-> "Ankara",
      min_latitude |-> 5, min_longitude |-> 5, max_latitude |-> 5, max_longitude |-> 5,
      regions |-> << [min_latitude |-> 0 - 1, min_longitude |-> 0 - 1,
                      max_latitude |-> 0, max_longitude |-> LngSteps - 1] >>],
     [city |-> "St.Ives",
      min_latitude |-> 1, min_longitude |-> 1,
      max_latitude |-> 2, max_longitude |-> 1 + LngSteps],
     [city |-> "Konya",
      min_latitude |-> 3000, min_longitude |-> 4200,
      max_latitude |-> 3001, max_longitude |-> 4200 + LngSteps] >>

\* the --location arguments explored
CityArgs == {"ankara", "St.Ives", "Atlantis"}

\* str.lower
Lower(s) ==
  CASE s = "Ankara" -> "ankara"
    [] s = "St.Ives" -> "st.ives"
    [] s = "Konya" -> "konya"
    [] OTHER -> s

\* whether file_prefix = city_name.lower() + "_panoramic_coords" holds a '.'
HasDot(name) == Lower(name) = "st.ives"

\* dict.get(key, default)
Get(d, k, default) == IF k \in DOMAIN d THEN d[k] ELSE default

\* mutant: a name without a match falls back on the catalog's first entry
MatchesOrFirst(city_name) ==
  IF \E i \in 1..Len(Catalog) : Lower(Catalog[i].city) = Lower(city_name)
  THEN {i \in 1..Len(Catalog) : Lower(Catalog[i].city) = Lower(city_name)}
  ELSE {1}

\* the catalog entries whose name matches case-insensitively
Matches(city_name) == {i \in 1..Len(Catalog) : Lower(Catalog[i].city) = Lower(city_name)}

\* get_city_coordinates raises ValueError when no entry matches
InCatalog(city_name) == Matches(city_name) # {}

\* get_city_coordinates: the bounds of the first matching entry
get_city_coordinates(city_name) ==
  LET hits == Matches(city_name)
      c == Catalog[CHOOSE i \in hits : \A j \in hits : i <= j]
      region == IF "regions" \in DOMAIN c THEN c.regions[1] ELSE EmptyMap
  IN  [min_lat |-> Get(region, "min_latitude", c.min_latitude),
          min_lng |-> Get(region, "min_longitude", c.min_longitude),
          max_lat |-> Get(region, "max_latitude", c.max_latitude),
          max_lng |-> Get(region, "max_longitude", c.max_longitude)]

\* ------------------------------------------------------------- state
VARIABLES
  mode,           \* which entry point runs: "sweep", "progress", "shard", "counter"
  pc,             \* per process: its position in the code
  city,           \* per process: the city_name argument
  cur,            \* per process: <<current_lat, current_lng>> (save_progress's lat, lng)
  progress_data,  \* per process: save_progress's local progress_data
  lock,           \* holder of progress.json.lock, "" when free
  progress,       \* progress.json
  shards,         \* the .json files of output_dir, by suffix number (0: unsuffixed)
  total_request,  \* total-request.json: -1 when absent, else its counter
  request_data,   \* per process: update_total_request_count's data["total-request"]
  file_limit,     \* save_coord's file_limit
  bbox,           \* min_lat, min_lng, max_lat, max_lng of the running sweep
  result,         \* what fetch_pano_metadata returned for the current coordinate
  current_file,   \* save_coord's current_file between open and dump
  existing_data,  \* save_coord's existing_data between open and dump
  known,          \* what is_saved_across_files returned for the current coordinate
  crashes,        \* terminations so far
  h_fetched,      \* history: fetch_pano_metadata was called in this visit of cur
  h_wrote,        \* history: save_coord was called in this visit of cur
  h_saved,        \* history: save_progress completed in this visit of cur
  h_resume,       \* history: the checkpoint load_progress returned to this run
  h_shards0,      \* history: the shard files when this visit of cur began
  h_attempted,    \* history: coordinates found in a shard or fetched, ever
  h_writes,       \* history: completed save_coord writes per key (capped at 2)
  h_records,      \* history: the record of the first completed write of each key
  h_nopano,       \* history: the stored checkpoint reports a fetch without panorama
  h_retry,        \* history: this run resumed from a checkpoint of that kind
  h_calls         \* history: keys of the direct save_coord calls, in order

vars == <<mode, pc, city, cur, progress_data, lock, progress, shards, total_request,
          request_data, file_limit, bbox, result, current_file, existing_data, known, crashes,
          h_fetched, h_wrote, h_saved, h_resume, h_shards0, h_attempted, h_writes,
          h_records, h_nopano, h_retry, h_calls>>

hist == <<h_fetched, h_wrote, h_saved, h_resume, h_shards0, h_attempted, h_writes,
          h_records, h_nopano, h_retry, h_calls>>

NoBox == [min_lat |-> 0, min_lng |-> 0, max_lat |-> 0, max_lng |-> 0]
NoPano == [pano_id |-> "", date |-> ""]

\* status "OK" answers of the metadata service: pano_id and date ("Unknown" by default)
Panos == {[pano_id |-> "pA", date |-> "2020-01"], [pano_id |-> "pB", date |-> "Unknown"]}

\* the outcomes of session.get
Outcomes == {"ok", "not_ok", "http_error", "transport_error"}

\* the grid of a bounding box
Grid(b) == {<<la, ln>> : la \in b.min_lat..b.max_lat, ln \in b.min_lng..b.max_lng}

\* whether the float reached from least by adding the step x - least times lies
\* above the float of the decimal x: 4.2 + 0.001 is 4.2010000000000005 > 4.201,
\* and 4.202000000000001 > 4.202 one step on; from -0.001, 0.001 and 3.0 the
\* sums of the grids explored are the decimals themselves
Drifts(least, x) == least = 4200 /\ x > least

\* "current <= max" for a current accumulated from least
Leq(least, x, most) == x < most \/ (x = most /\ ~Drifts(least, x))

\* row-major order of the sweep
AtOrAfter(c, d) == c[1] > d[1] \/ (c[1] = d[1] /\ c[2] >= d[2])

Min2(a, b) == IF a < b THEN a ELSE b

\* ------------------------------------------------------------- Shard Store
\* mutant: a shard that does not parse ends the check without a hit
is_saved_unless_corrupt(lat, lng) ==
  /\ \A n \in DOMAIN shards : Parses(shards[n])
  /\ \E n \in DOMAIN shards : Key(lat, lng) \in DOMAIN shards[n].data

\* mutant: only the highest-numbered shard is examined
is_saved_in_last_file(lat, lng) ==
  \E n \in DOMAIN shards :
    /\ \A m \in DOMAIN shards : m <= n
    /\ Parses(shards[n]) /\ Key(lat, lng) \in DOMAIN shards[n].data

\* is_saved_across_files: some shard that parses holds the key; one that does not
\* parse is skipped
is_saved_across_files(lat, lng) ==
  \E n \in DOMAIN shards : Parses(shards[n]) /\ Key(lat, lng) \in DOMAIN shards[n].data

\* save_coord.file_sort_key: 0 for the unsuffixed file, the number after the last
\* '-' of fname.split(".")[0], 999999 when that is no number (a prefix with a '.')
file_sort_key(n, dotted) == IF n = 0 THEN 0 ELSE IF dotted THEN 999999 ELSE n

\* existing_files[-1] after the sort (the sort is stable, listdir's order is not
\* fixed: any file of the greatest key)
LastFiles(dotted) ==
  {n \in DOMAIN shards :
     \A m \in DOMAIN shards : file_sort_key(m, dotted) <= file_sort_key(n, dotted)}

\* the data loaded from the last file: {} when it does not parse
LoadLast(last_file) ==
  IF Parses(shards[last_file]) THEN shards[last_file].data ELSE EmptyMap

\* mutant: the suffix after a full last file skips a number
new_suffix_skipping(last_file, dotted) == last_file + 2

\* the suffix of the file that follows a full last file
new_suffix(last_file, dotted) ==
  IF last_file = 0 THEN 1 ELSE IF dotted THEN 1 ELSE last_file + 1

\* mutant: the last file never counts as full
HitLimitNever(data, limit) == FALSE

\* mutant: the limit is tested with > instead of >=
HitLimitAbove(data, limit) == Cardinality(DOMAIN data) > limit

\* whether the last file hit the limit
HitLimit(data, limit) == Cardinality(DOMAIN data) >= limit

\* the record save_coord stores under the key
CoordData(lat, lng, pano_id, label, date) ==
  [latitude |-> lat, longitude |-> lng, pano_id |-> pano_id, address |-> label,
   date |-> date]

\* where control goes when save_coord returns
AfterSaveCoord == IF mode = "sweep" THEN "save_progress" ELSE "idle"

\* where control goes when save_progress returns
AfterSaveProgress == IF mode = "sweep" THEN "advance" ELSE "idle"

\* save_coord up to open(current_file, "w"), which leaves the file empty
SaveCoordOpen ==
  /\ pc[Scanner] = "save_coord"
  /\ LET dotted == HasDot(city[Scanner])
         rec == CoordData(cur[Scanner][1], cur[Scanner][2], result.pano_id,
                          "Unknown", result.date)
         key == Key(cur[Scanner][1], cur[Scanner][2])
     IN IF DOMAIN shards = {}
        THEN /\ current_file' = 0
             /\ existing_data' = DictPut(EmptyMap, key, rec)
        ELSE \E last_file \in LastFiles(dotted) :
               LET loaded == LoadLast(last_file)
                   full == HitLimit(loaded, file_limit)
               IN /\ current_file' =
                       IF full THEN new_suffix(last_file, dotted) ELSE last_file
                  /\ existing_data' =
                       DictPut(IF full THEN EmptyMap ELSE loaded, key, rec)
  /\ shards' = DictPut(shards, current_file', CorruptFile)
  /\ pc' = [pc EXCEPT ![Scanner] = "sc_dump"]
  /\ h_wrote' = TRUE
  /\ UNCHANGED <<request_data, mode, city, cur, progress_data, lock, progress, total_request,
                 file_limit, bbox, result, known, crashes, h_fetched, h_saved,
                 h_resume, h_shards0, h_attempted, h_writes, h_records, h_nopano, h_retry,
                 h_calls>>

\* save_coord's json.dump and return
SaveCoordDump ==
  /\ pc[Scanner] = "sc_dump"
  /\ shards' = DictPut(shards, current_file, OkFile(existing_data))
  /\ current_file' = 0
  /\ existing_data' = EmptyMap
  /\ pc' = [pc EXCEPT ![Scanner] = AfterSaveCoord]
  /\ h_writes' = DictPut(h_writes, cur[Scanner],
                         Min2(Get(h_writes, cur[Scanner], 0) + 1, 2))
  /\ h_records' = IF cur[Scanner] \in DOMAIN h_records THEN h_records
                  ELSE DictPut(h_records, cur[Scanner], existing_data[cur[Scanner]])
  /\ UNCHANGED <<request_data, mode, city, cur, progress_data, lock, progress, total_request,
                 file_limit, bbox, result, known, crashes, h_fetched, h_wrote,
                 h_saved, h_resume, h_shards0, h_attempted, h_nopano, h_retry,
                 h_calls>>

\* ------------------------------------------------------------- Progress Store
\* mutant: the read-modify-write is not locked
LockIgnored == TRUE

\* FileLock(progress_file_lock) can be taken
LockFree == lock = ""

\* mutant: save_progress always starts from an empty mapping
ReadProgressFresh == EmptyMap

\* the mapping read from progress.json: {} when absent or not parseable
ReadProgress == IF Exists(progress) /\ Parses(progress) THEN progress.data ELSE EmptyMap

\* load_progress: <<last_lat, last_lng>>, <<>> for (None, None)
load_progress(city_name) == Get(ReadProgress, city_name, <<>>)

\* save_progress: take the lock, read the file, set the city's entry
SaveProgressRead(p) ==
  /\ pc[p] = "save_progress"
  /\ LockFree
  /\ lock' = p
  /\ progress_data' = [progress_data EXCEPT ![p] = DictPut(ReadProgress, city[p], cur[p])]
  /\ pc' = [pc EXCEPT ![p] = "sp_write"]
  /\ UNCHANGED <<request_data, mode, city, cur, progress, shards, total_request, file_limit, bbox,
                 result, current_file, existing_data, known, crashes>>
  /\ UNCHANGED hist

\* save_progress: open(progress_file, "w") leaves the file empty
SaveProgressOpen(p) ==
  /\ pc[p] = "sp_write"
  /\ progress' = CorruptFile
  /\ pc' = [pc EXCEPT ![p] = "sp_dump"]
  /\ UNCHANGED <<request_data, mode, city, cur, progress_data, lock, shards, total_request,
                 file_limit, bbox, result, current_file, existing_data, known, crashes>>
  /\ UNCHANGED hist

\* save_progress: json.dump, close, release the lock, return
SaveProgressDump(p) ==
  /\ pc[p] = "sp_dump"
  /\ progress' = OkFile(progress_data[p])
  /\ progress_data' = [progress_data EXCEPT ![p] = EmptyMap]
  /\ lock' = IF lock = p THEN "" ELSE lock
  /\ pc' = [pc EXCEPT ![p] = AfterSaveProgress]
  /\ h_saved' = IF p = Scanner THEN TRUE ELSE h_saved
  /\ h_nopano' = IF p = Scanner /\ mode = "sweep" THEN result = NoPano ELSE h_nopano
  /\ UNCHANGED <<request_data, mode, city, cur, shards, total_request, file_limit, bbox, result,
                 current_file, existing_data, known, crashes, h_fetched, h_wrote,
                 h_resume, h_shards0, h_attempted, h_writes, h_records, h_retry, h_calls>>

\* ------------------------------------------------------------- Metadata Fetcher
\* mutant: save_coord is called whatever the fetch returned
HasPanoAlways(pano_id) == TRUE

\* "if pano_id:": None (written "") is false
HasPano(pano_id) == pano_id # ""

\* "last_lat if last_lat else min_lat": the float 0.0 is false, as None is
Truthy(x) == x # 0

\* fetch_pano_metadata's return value: the panorama of a 200 answer with
\* status "OK", else (None, None, None)
FetchResult(outcome, pano) == IF outcome = "ok" THEN pano ELSE NoPano

\* update_total_request_count runs after session.get returned, not when it raised
CountsRequest(outcome) == outcome # "transport_error"

\* ------------------------------------------------------------- Scan Engine
\* "last_lat if last_lat else min_lat" (and the same for lng)
ResumeFrom(last, least, i) == IF last # <<>> /\ Truthy(last[i]) THEN last[i] ELSE least

\* initialize_total_request_file() and fetch_city_panoramas up to its loops
StartSweep ==
  /\ pc[Scanner] = "start"
  /\ total_request' = IF total_request = 0 - 1 THEN 0 ELSE total_request
  /\ IF ~InCatalog(city[Scanner])
     THEN /\ pc' = [pc EXCEPT ![Scanner] = "raised"]
          /\ UNCHANGED <<cur, bbox, h_resume, h_retry>>
     ELSE /\ LockFree
          /\ LET b == get_city_coordinates(city[Scanner])
                 last == load_progress(city[Scanner])
             IN /\ bbox' = b
                /\ cur' = [cur EXCEPT ![Scanner] =
                             <<ResumeFrom(last, b.min_lat, 1), ResumeFrom(last, b.min_lng, 2)>>]
                /\ h_resume' = last
                /\ h_retry' = (last # <<>> /\ h_nopano)
          /\ pc' = [pc EXCEPT ![Scanner] = "row"]
  /\ UNCHANGED <<request_data, mode, city, progress_data, lock, progress, shards, file_limit, result,
                 current_file, existing_data, known, crashes, h_fetched, h_wrote,
                 h_saved, h_shards0, h_attempted, h_writes, h_records, h_nopano, h_calls>>

\* while current_lat <= max_lat
Row ==
  /\ pc[Scanner] = "row"
  /\ pc' = [pc EXCEPT ![Scanner] = IF Leq(bbox.min_lat, cur[Scanner][1], bbox.max_lat) THEN "col" ELSE "done"]
  /\ UNCHANGED <<request_data, mode, city, cur, progress_data, lock, progress, shards, total_request,
                 file_limit, bbox, result, current_file, existing_data, known, crashes>>
  /\ UNCHANGED hist

\* while current_lng <= max_lng; after it current_lat += step, current_lng = min_lng
Col ==
  /\ pc[Scanner] = "col"
  /\ IF Leq(bbox.min_lng, cur[Scanner][2], bbox.max_lng)
     THEN /\ pc' = [pc EXCEPT ![Scanner] = "check"]
          /\ cur' = cur
     ELSE /\ pc' = [pc EXCEPT ![Scanner] = "row"]
          /\ cur' = [cur EXCEPT ![Scanner] = <<cur[Scanner][1] + 1, bbox.min_lng>>]
  /\ UNCHANGED <<request_data, mode, city, progress_data, lock, progress, shards, total_request,
                 file_limit, bbox, result, current_file, existing_data, known, crashes>>
  /\ UNCHANGED hist

\* mutant: the result of the dedup check is ignored
SkipsNothing(saved) == FALSE

\* the branch "if not is_saved_across_files(...)" takes
SkipsKnown(saved) == saved

\* if not is_saved_across_files(output_dir, base_name, current_lat, current_lng)
Check ==
  /\ pc[Scanner] = "check"
  /\ known' = is_saved_across_files(cur[Scanner][1], cur[Scanner][2])
  /\ pc' = [pc EXCEPT ![Scanner] = IF SkipsKnown(known') THEN "advance" ELSE "fetch"]
  /\ h_fetched' = FALSE
  /\ h_wrote' = FALSE
  /\ h_saved' = FALSE
  /\ h_shards0' = shards
  /\ h_attempted' = IF known' THEN h_attempted \cup {cur[Scanner]} ELSE h_attempted
  /\ UNCHANGED <<request_data, mode, city, cur, progress_data, lock, progress, shards, total_request,
                 file_limit, bbox, result, current_file, existing_data, crashes,
                 h_resume, h_writes, h_records, h_nopano, h_retry, h_calls>>

\* pano_id, location, date = fetch_pano_metadata(...); if pano_id: save_coord(...)
Fetch ==
  /\ pc[Scanner] = "fetch"
  /\ \E outcome \in Outcomes, pano \in Panos :
       /\ CountsRequest(outcome) => total_request < MaxRequests
       /\ total_request' = IF CountsRequest(outcome) THEN total_request + 1
                           ELSE total_request
       /\ result' = FetchResult(outcome, pano)
  /\ pc' = [pc EXCEPT ![Scanner] =
              IF HasPano(result'.pano_id) THEN "save_coord" ELSE "save_progress"]
  /\ h_fetched' = TRUE
  /\ h_attempted' = h_attempted \cup {cur[Scanner]}
  /\ UNCHANGED <<request_data, mode, city, cur, progress_data, lock, progress, shards, file_limit,
                 bbox, current_file, existing_data, known, crashes, h_wrote, h_saved,
                 h_resume, h_shards0, h_writes, h_records, h_nopano, h_retry, h_calls>>

\* mutant: the longitude is not advanced
AdvanceNoStep ==
  /\ pc[Scanner] = "advance"
  /\ pc' = [pc EXCEPT ![Scanner] = "col"]
  /\ result' = NoPano
  /\ known' = FALSE
  /\ h_fetched' = FALSE
  /\ h_wrote' = FALSE
  /\ h_saved' = FALSE
  /\ h_shards0' = EmptyMap
  /\ UNCHANGED <<request_data, mode, city, cur, progress_data, lock, progress, shards,
                 total_request, file_limit, bbox, current_file, existing_data, crashes,
                 h_resume, h_attempted, h_writes, h_records, h_nopano, h_retry, h_calls>>

\* current_lng += step
Advance ==
  /\ pc[Scanner] = "advance"
  /\ cur' = [cur EXCEPT ![Scanner] = <<cur[Scanner][1], cur[Scanner][2] + 1>>]
  /\ pc' = [pc EXCEPT ![Scanner] = "col"]
  /\ result' = NoPano
  /\ known' = FALSE
  /\ h_fetched' = FALSE
  /\ h_wrote' = FALSE
  /\ h_saved' = FALSE
  /\ h_shards0' = EmptyMap
  /\ UNCHANGED <<request_data, mode, city, progress_data, lock, progress, shards, total_request,
                 file_limit, bbox, current_file, existing_data, crashes, h_resume,
                 h_attempted, h_writes, h_records, h_nopano, h_retry, h_calls>>

\* the positions of a running sweep
Running == {"row", "col", "check", "fetch", "save_coord", "sc_dump", "save_progress",
            "sp_write", "sp_dump", "advance"}

\* the process is terminated anywhere in the sweep (its lock is released with it,
\* its files stay as they are) and the script is started again
Crash ==
  /\ pc[Scanner] \in Running
  /\ crashes < MaxCrashes
  /\ crashes' = crashes + 1
  /\ pc' = [pc EXCEPT ![Scanner] = "start"]
  /\ lock' = IF lock = Scanner THEN "" ELSE lock
  /\ cur' = [cur EXCEPT ![Scanner] = <<0, 0>>]
  /\ progress_data' = [progress_data EXCEPT ![Scanner] = EmptyMap]
  /\ bbox' = NoBox
  /\ result' = NoPano
  /\ current_file' = 0
  /\ existing_data' = EmptyMap
  /\ known' = FALSE
  /\ h_fetched' = FALSE
  /\ h_wrote' = FALSE
  /\ h_saved' = FALSE
  /\ h_shards0' = EmptyMap
  /\ h_resume' = <<>>
  /\ h_retry' = FALSE
  /\ UNCHANGED <<request_data, mode, city, progress, shards, total_request, file_limit,
                 h_attempted, h_writes, h_records, h_nopano, h_calls>>

\* ------------------------------------------------------------- direct calls
\* the keys a caller passes to save_coord
CallKeys == Grid(get_city_coordinates(city[Scanner]))

\* save_coord(base_name, lat, lng, pano_id, "Unknown", date, file_limit)
CallSaveCoord ==
  /\ mode = "shard"
  /\ pc[Scanner] = "idle"
  /\ Len(h_calls) < MaxCalls
  /\ \E k \in CallKeys, pano \in Panos :
       /\ cur' = [cur EXCEPT ![Scanner] = k]
       /\ result' = pano
       /\ h_calls' = Append(h_calls, k)
  /\ pc' = [pc EXCEPT ![Scanner] = "save_coord"]
  /\ UNCHANGED <<request_data, mode, city, progress_data, lock, progress, shards, total_request,
                 file_limit, bbox, current_file, existing_data, known, crashes,
                 h_fetched, h_wrote, h_saved, h_resume, h_shards0, h_attempted,
                 h_writes, h_records, h_nopano, h_retry>>

\* the coordinates a caller passes to save_progress
CallCoords == {<<la, ln>> : la \in 0..1, ln \in 0..1}

\* save_progress(city_name, lat, lng) called by process p
CallSaveProgress(p) ==
  /\ mode = "progress"
  /\ pc[p] = "idle"
  /\ Len(h_calls) < MaxCalls
  /\ \E c \in CallCoords : cur' = [cur EXCEPT ![p] = c]
  /\ h_calls' = Append(h_calls, p)
  /\ pc' = [pc EXCEPT ![p] = "save_progress"]
  /\ UNCHANGED <<request_data, mode, city, progress_data, lock, progress, shards, total_request,
                 file_limit, bbox, result, current_file, existing_data, known, crashes,
                 h_fetched, h_wrote, h_saved, h_resume, h_shards0, h_attempted,
                 h_writes, h_records, h_nopano, h_retry>>

\* get_searched_percentage.py is run for the region: calculate_progress calls its
\* own load_progress
CallStatus ==
  /\ mode = "progress"
  /\ pc[Reader] = "idle"
  /\ Len(h_calls) < MaxCalls
  /\ h_calls' = Append(h_calls, Reader)
  /\ pc' = [pc EXCEPT ![Reader] = "lp_load"]
  /\ UNCHANGED <<request_data, mode, city, cur, progress_data, lock, progress, shards,
                 total_request, file_limit, bbox, result, current_file, existing_data,
                 known, crashes, h_fetched, h_wrote, h_saved, h_resume, h_shards0,
                 h_attempted, h_writes, h_records, h_nopano, h_retry>>

\* get_searched_percentage.load_progress: no lock is taken; (None, None), written
\* <<>>, when the file is absent, does not parse or has no entry of the city
StatusLoad ==
  /\ pc[Reader] = "lp_load"
  /\ cur' = [cur EXCEPT ![Reader] = Get(ReadProgress, city[Reader], <<>>)]
  /\ pc' = [pc EXCEPT ![Reader] = "idle"]
  /\ UNCHANGED <<request_data, mode, city, progress_data, lock, progress, shards,
                 total_request, file_limit, bbox, result, current_file, existing_data,
                 known, crashes>>
  /\ UNCHANGED hist

\* update_total_request_count() called by process p
CallUpdate(p) ==
  /\ mode = "counter"
  /\ pc[p] = "idle"
  /\ Len(h_calls) < MaxCalls
  /\ h_calls' = Append(h_calls, p)
  /\ pc' = [pc EXCEPT ![p] = "utr_load"]
  /\ UNCHANGED <<request_data, mode, city, cur, progress_data, lock, progress, shards,
                 total_request, file_limit, bbox, result, current_file, existing_data,
                 known, crashes, h_fetched, h_wrote, h_saved, h_resume, h_shards0,
                 h_attempted, h_writes, h_records, h_nopano, h_retry>>

\* update_total_request_count: open(total_request_file, "r+"), data = json.load(f);
\* no lock is taken
UpdateLoad(p) ==
  /\ pc[p] = "utr_load"
  /\ request_data' = [request_data EXCEPT ![p] = total_request]
  /\ pc' = [pc EXCEPT ![p] = "utr_dump"]
  /\ UNCHANGED <<mode, city, cur, progress_data, lock, progress, shards, total_request,
                 file_limit, bbox, result, current_file, existing_data, known, crashes>>
  /\ UNCHANGED hist

\* update_total_request_count: data["total-request"] += 1, f.seek(0), json.dump, close
UpdateDump(p) ==
  /\ pc[p] = "utr_dump"
  /\ total_request' = request_data[p] + 1
  /\ request_data' = [request_data EXCEPT ![p] = 0]
  /\ pc' = [pc EXCEPT ![p] = "idle"]
  /\ UNCHANGED <<mode, city, cur, progress_data, lock, progress, shards, file_limit,
                 bbox, result, current_file, existing_data, known, crashes>>
  /\ UNCHANGED hist

\* ------------------------------------------------------------- specifications
InitCommon ==
  /\ cur = [p \in Procs |-> <<0, 0>>]
  /\ progress_data = [p \in Procs |-> EmptyMap]
  /\ lock = ""
  /\ shards = EmptyMap
  /\ request_data = [p \in Procs |-> 0]
  /\ bbox = NoBox
  /\ result = NoPano
  /\ current_file = 0
  /\ existing_data = EmptyMap
  /\ known = FALSE
  /\ crashes = 0
  /\ h_fetched = FALSE
  /\ h_wrote = FALSE
  /\ h_saved = FALSE
  /\ h_resume = <<>>
  /\ h_shards0 = EmptyMap
  /\ h_attempted = {}
  /\ h_writes = EmptyMap
  /\ h_records = EmptyMap
  /\ h_nopano = FALSE
  /\ h_retry = FALSE
  /\ h_calls = <<>>

\* the script is started for one --location on an empty working directory
Init ==
  /\ InitCommon
  /\ mode = "sweep"
  /\ pc = [p \in Procs |-> IF p = Scanner THEN "start" ELSE "idle"]
  /\ \E c \in CityArgs : city = [p \in Procs |-> IF p = Scanner THEN c ELSE ""]
  /\ progress = NoFile
  /\ total_request = 0 - 1
  /\ file_limit = FileLimit

Next ==
  \/ StartSweep
  \/ Row
  \/ Col
  \/ Check
  \/ Fetch
  \/ SaveCoordOpen
  \/ SaveCoordDump
  \/ SaveProgressRead(Scanner)
  \/ SaveProgressOpen(Scanner)
  \/ SaveProgressDump(Scanner)
  \/ Advance
  \/ Crash

Spec == Init /\ [][Next]_vars

\* the script is started once on an empty working directory and runs to its end
FreshArgs == {"ankara", "St.Ives", "konya"}

InitFresh ==
  /\ InitCommon
  /\ mode = "sweep"
  /\ pc = [p \in Procs |-> IF p = Scanner THEN "start" ELSE "idle"]
  /\ \E c \in FreshArgs : city = [p \in Procs |-> IF p = Scanner THEN c ELSE ""]
  /\ progress = NoFile
  /\ total_request = 0 - 1
  /\ file_limit = FileLimit

NextFresh ==
  \/ StartSweep
  \/ Row
  \/ Col
  \/ Check
  \/ Fetch
  \/ SaveCoordOpen
  \/ SaveCoordDump
  \/ SaveProgressRead(Scanner)
  \/ SaveProgressOpen(Scanner)
  \/ SaveProgressDump(Scanner)
  \/ Advance

SpecFresh == InitFresh /\ [][NextFresh]_vars

\* the coordinates the two loops reach in a bounding box
Reached(b) ==
  {k \in Grid(b) : Leq(b.min_lat, k[1], b.max_lat) /\ Leq(b.min_lng, k[2], b.max_lng)}

\* the checkpoints a started script may find for its region: none, or any
\* coordinate an earlier run reached (and found no panorama up to it)
ResumePoints(c) ==
  {NoFile} \cup {OkFile(DictPut(EmptyMap, c, k)) : k \in Reached(get_city_coordinates(c))}

InitResume ==
  /\ InitCommon
  /\ mode = "sweep"
  /\ pc = [p \in Procs |-> IF p = Scanner THEN "start" ELSE "idle"]
  /\ \E c \in FreshArgs :
       /\ city = [p \in Procs |-> IF p = Scanner THEN c ELSE ""]
       /\ progress \in ResumePoints(c)
  /\ total_request = 0 - 1
  /\ file_limit = FileLimit

\* the process is not terminated and every session.get returns or raises (its
\* timeout is 10 s), so each step of the sweep is eventually taken
SpecResume == InitResume /\ [][NextFresh]_vars /\ WF_vars(NextFresh)

\* save_coord called directly on a region without shard files
InitShard ==
  /\ InitCommon
  /\ mode = "shard"
  /\ pc = [p \in Procs |-> "idle"]
  /\ \E c \in {"ankara", "St.Ives"} : city = [p \in Procs |-> IF p = Scanner THEN c ELSE ""]
  /\ progress = NoFile
  /\ total_request = 0 - 1
  /\ file_limit \in 1..MaxLimit

NextShard ==
  \/ CallSaveCoord
  \/ SaveCoordOpen
  \/ SaveCoordDump

SpecShard == InitShard /\ [][NextShard]_vars

\* the progress files two processes may find
InitialProgress ==
  {NoFile, CorruptFile, OkFile(EmptyMap), OkFile(DictPut(EmptyMap, "Bursa", <<3, 3>>))}

\* two processes, each of another region, call save_progress on the shared file
InitProgress ==
  /\ InitCommon
  /\ mode = "progress"
  /\ pc = [p \in Procs |-> "idle"]
  /\ city = [p \in Procs |-> IF p = Scanner THEN "ankara" ELSE "St.Ives"]
  /\ progress \in InitialProgress
  /\ total_request = 0 - 1
  /\ file_limit = FileLimit

NextProgress ==
  \/ \E p \in Procs : CallSaveProgress(p)
  \/ \E p \in Procs : SaveProgressRead(p)
  \/ \E p \in Procs : SaveProgressOpen(p)
  \/ \E p \in Procs : SaveProgressDump(p)

SpecProgress == InitProgress /\ [][NextProgress]_vars

\* a scan of a region calls save_progress while the status script of the same
\* region loads the checkpoint
InitStatus ==
  /\ InitCommon
  /\ mode = "progress"
  /\ pc = [p \in Procs |-> "idle"]
  /\ city = [p \in Procs |-> "ankara"]
  /\ progress \in InitialProgress
  /\ total_request = 0 - 1
  /\ file_limit = FileLimit

NextStatus ==
  \/ CallSaveProgress(Scanner)
  \/ SaveProgressRead(Scanner)
  \/ SaveProgressOpen(Scanner)
  \/ SaveProgressDump(Scanner)
  \/ CallStatus
  \/ StatusLoad

SpecStatus == InitStatus /\ [][NextStatus]_vars

\* two scanning processes, each past initialize_total_request_file(), call
\* update_total_request_count on the shared counter file as their fetches return
InitCounter ==
  /\ InitCommon
  /\ mode = "counter"
  /\ pc = [p \in Procs |-> "idle"]
  /\ city = [p \in Procs |-> IF p = Scanner THEN "ankara" ELSE "St.Ives"]
  /\ progress = OkFile(EmptyMap)
  /\ total_request = 0
  /\ file_limit = FileLimit

NextCounter ==
  \/ \E p \in Procs : CallUpdate(p)
  \/ \E p \in Procs : UpdateLoad(p)
  \/ \E p \in Procs : UpdateDump(p)

SpecCounter == InitCounter /\ [][NextCounter]_vars

\* ------------------------------------------------------------- claims
\* the sweep is at a coordinate it visits
Visiting ==
  /\ mode = "sweep"
  /\ pc[Scanner] \in {"check", "fetch", "save_coord", "sc_dump", "save_progress",
                      "sp_write", "sp_dump", "advance"}

\* the sweep has finished with the coordinate cur and has not advanced yet
Finished == mode = "sweep" /\ pc[Scanner] = "advance"

\* the keys some parseable shard holds
StoredKeys == UNION {DOMAIN shards[n].data : n \in {m \in DOMAIN shards : Parses(shards[m])}}

\* the record a parseable shard holds for key k: the set of them over all shards
StoredRecords(k) ==
  {shards[n].data[k] : n \in {m \in DOMAIN shards :
                                Parses(shards[m]) /\ k \in DOMAIN shards[m].data}}

\* C1: a sweep that load_progress gave a checkpoint inside the region's bounds (a
\* component equal to 0 included) visits only coordinates at or after that
\* checkpoint in row-major order.
C1_Resumability ==
  (Visiting /\ h_resume # <<>> /\ h_resume \in Grid(bbox))
    => AtOrAfter(cur[Scanner], h_resume)

\* C2: a coordinate whose key a shard holds when the sweep reaches it is skipped:
\* no fetch_pano_metadata call, no save_coord call, every shard as it was.
C2_Dedup ==
  (mode = "sweep" /\ known)
    => /\ pc[Scanner] = "advance"
       /\ ~h_fetched
       /\ ~h_wrote
       /\ shards = h_shards0

C2_Witness == Finished /\ known /\ cur[Scanner] \in StoredKeys

\* C3: limit + 1 save_coord calls with pairwise distinct keys on a region without
\* shard files leave exactly the unsuffixed shard with limit entries and the
\* shard "-1" with one entry.
C3_ShardRollover ==
  (/\ mode = "shard"
   /\ pc[Scanner] = "idle"
   /\ Len(h_calls) = file_limit + 1
   /\ \A i, j \in 1..Len(h_calls) : i # j => h_calls[i] # h_calls[j])
    => /\ DOMAIN shards = {0, 1}
       /\ Parses(shards[0]) /\ Cardinality(DOMAIN shards[0].data) = file_limit
       /\ Parses(shards[1]) /\ Cardinality(DOMAIN shards[1].data) = 1

C3_Witness ==
  /\ mode = "shard"
  /\ pc[Scanner] = "idle"
  /\ file_limit = MaxLimit
  /\ Len(h_calls) = file_limit + 1
  /\ \A i, j \in 1..Len(h_calls) : i # j => h_calls[i] # h_calls[j]
  /\ DOMAIN shards = {0, 1}

\* C4: when the sweep has finished with a coordinate, on whichever branch,
\* save_progress was called for it and the stored checkpoint is that coordinate.
C4_CheckpointEveryBranch ==
  Finished => (h_saved /\ load_progress(city[Scanner]) = cur[Scanner])

\* C5: a fetch without panorama id leaves every shard as it was and the checkpoint
\* becomes that coordinate; after any fetch the checkpoint is the coordinate fetched.
C5_NotFoundStep ==
  /\ (mode = "sweep" /\ h_fetched /\ result = NoPano) => shards = h_shards0
  /\ (Finished /\ h_fetched) => load_progress(city[Scanner]) = cur[Scanner]

C5_Witness ==
  /\ Finished
  /\ h_fetched
  /\ result = NoPano
  /\ load_progress(city[Scanner]) = cur[Scanner]
  /\ StoredKeys # {}
  /\ cur[Scanner] \notin StoredKeys

\* the processes that called save_progress
Callers == {h_calls[i] : i \in 1..Len(h_calls)}

\* C6: at most one process is between the read and the write of save_progress,
\* and when the calls of two processes for two regions have completed the file
\* holds the entry each of them wrote.
C6_NoLostCheckpoint ==
  mode = "progress"
    => /\ Cardinality({p \in Procs : pc[p] \in {"sp_write", "sp_dump"}}) <= 1
       /\ (\A p \in Procs : pc[p] = "idle")
            => /\ Callers # {} => Parses(progress)
               /\ \A p \in Callers : load_progress(city[p]) = cur[p]

C6_Witness ==
  /\ mode = "progress"
  /\ \A p \in Procs : pc[p] = "idle"
  /\ Callers = Procs
  /\ Len(h_calls) = MaxCalls
  /\ \A p \in Procs : load_progress(city[p]) = cur[p]

\* C7: each coordinate key is held by at most one shard file of the region.
C7_KeyUniqueAcrossShards ==
  mode = "sweep"
    => \A n, m \in DOMAIN shards :
         (n # m /\ Parses(shards[n]) /\ Parses(shards[m]))
           => (DOMAIN shards[n].data) \cap (DOMAIN shards[m].data) = {}

C7_Witness ==
  /\ mode = "sweep"
  /\ crashes > 0
  /\ known
  /\ Cardinality(DOMAIN shards) >= 2
  /\ \A n \in DOMAIN shards : Parses(shards[n]) /\ DOMAIN shards[n].data # {}

\* C8: a record once written is still held by some shard, with the same pano_id
\* and date, when the sweep has ended.
C8_RecordsPermanent ==
  (mode = "sweep" /\ pc[Scanner] = "done")
    => \A k \in DOMAIN h_records : h_records[k] \in StoredRecords(k)

\* C9: a sweep restarted from a checkpoint that reports a fetch without panorama
\* does not call fetch_pano_metadata for that coordinate again.
C9_FailedNotRetried ==
  ~(mode = "sweep" /\ h_retry /\ h_fetched /\ cur[Scanner] = h_resume)

\* C10: when the sweep is done every grid coordinate was found in a shard or
\* fetched at least once, and no coordinate had more than one record written.
C10_NoCoordinateLost ==
  (mode = "sweep" /\ pc[Scanner] = "done")
    => /\ Grid(bbox) \subseteq h_attempted
       /\ \A k \in DOMAIN h_writes : h_writes[k] <= 1

\* C11: each call of fetch_pano_metadata raises the stored request counter by
\* exactly 1, whatever session.get did (answer, HTTP error, transport error).
C11_CountsEveryAttempt ==
  [][(mode = "sweep" /\ ~h_fetched /\ h_fetched') => total_request' = total_request + 1]_vars

\* C12: when the update_total_request_count calls of two processes have completed,
\* the counter is its initial value (0) plus the number of calls.
C12_NoLostIncrement ==
  (mode = "counter" /\ \A p \in Procs : pc[p] = "idle")
    => total_request = Len(h_calls)

\* the --location argument names no catalog entry, in whatever case
UnknownCity ==
  mode = "sweep" /\ \A i \in 1..Len(Catalog) : Lower(Catalog[i].city) # Lower(city[Scanner])

\* C13: for a region name no catalog entry matches, get_city_coordinates raises and
\* the sweep never starts: no fetch_pano_metadata call, no shard write, no
\* checkpoint write.
C13_UnknownRegionFatal ==
  UnknownCity
    => /\ pc[Scanner] \in {"start", "raised"}
       /\ ~h_fetched /\ h_attempted = {} /\ total_request <= 0
       /\ ~h_wrote /\ shards = EmptyMap
       /\ ~h_saved /\ progress = NoFile

C13_Witness == UnknownCity /\ pc[Scanner] = "raised" /\ total_request = 0

\* the entries of shard n: none while the file does not parse
ShardSize(n) == IF Parses(shards[n]) THEN Cardinality(DOMAIN shards[n].data) ELSE 0

\* C14: under save_coord calls with a limit >= 1 every shard holds at most limit
\* entries, and a step that adds a shard file to a region that has one is taken
\* with a highest-ordered shard of exactly limit entries.
C14_ShardSizeCap ==
  /\ [](mode = "shard" => \A n \in DOMAIN shards : ShardSize(n) <= file_limit)
  /\ [][(mode = "shard" /\ DOMAIN shards # {} /\ DOMAIN shards' # DOMAIN shards)
          => \E last_file \in LastFiles(HasDot(city[Scanner])) :
               ShardSize(last_file) = file_limit]_vars

C14_Witness ==
  /\ mode = "shard"
  /\ pc[Scanner] = "idle"
  /\ file_limit = MaxLimit
  /\ Cardinality(DOMAIN shards) >= 2
  /\ \E n \in DOMAIN shards : ShardSize(n) = file_limit

\* the greatest suffix number among the region's shard files
HighestShard == CHOOSE n \in DOMAIN shards : \A m \in DOMAIN shards : m <= n

\* C15: a step of save_coord changes one shard file and leaves every other shard
\* file as it was; that file is the region's first file, the highest-numbered
\* shard when it is below the limit (or being rewritten), or a new shard numbered
\* one above the highest, which is full.
C15_OnlyHighestShardWritten ==
  [][(mode = "shard" /\ shards' # shards)
      => \E n \in DOMAIN shards' :
           /\ \A m \in DOMAIN shards' \ {n} : m \in DOMAIN shards /\ shards'[m] = shards[m]
           /\ \/ DOMAIN shards = {} /\ n = 0
              \/ /\ DOMAIN shards # {}
                 /\ n = HighestShard
                 /\ (~Parses(shards[n]) \/ ShardSize(n) < file_limit)
              \/ /\ DOMAIN shards # {}
                 /\ n = HighestShard + 1
                 /\ ShardSize(HighestShard) = file_limit]_vars

\* strictly before in row-major order
Before(c, d) == ~AtOrAfter(c, d)

\* C16: a sweep without stored checkpoint visits every coordinate of the grid
\* min + i*step, min + j*step up to both maxima, each once, in row-major order:
\* when it reaches a coordinate it has attempted exactly the grid coordinates
\* before it, and when it is done it has attempted the whole grid.
C16_RowMajorVisitOrder ==
  (mode = "sweep" /\ crashes = 0 /\ bbox # NoBox /\ h_resume = <<>>)
    => /\ pc[Scanner] = "check"
            => /\ cur[Scanner] \in Grid(bbox)
               /\ h_attempted = {c \in Grid(bbox) : Before(c, cur[Scanner])}
       /\ pc[Scanner] = "done" => h_attempted = Grid(bbox)

\* C17: a sweep started from any resume point reaches the end of its loops, and
\* from then on no fetch is made and no shard, checkpoint or counter is written.
C17_SweepTerminates ==
  /\ (mode = "sweep" /\ pc[Scanner] = "row") ~> (pc[Scanner] = "done")
  /\ [][pc[Scanner] = "done"
          => UNCHANGED <<pc, shards, progress, total_request, h_attempted>>]_vars

C17_Witness ==
  /\ mode = "sweep"
  /\ pc[Scanner] = "done"
  /\ h_resume # <<>>
  /\ h_attempted # {}

\* C18: the value save_progress is about to write for the region is at or after
\* the value the progress file holds for it, in row-major order.
C18_CheckpointMonotone ==
  (/\ mode = "sweep"
   /\ pc[Scanner] = "sp_write"
   /\ load_progress(city[Scanner]) # <<>>)
    => AtOrAfter(progress_data[Scanner][city[Scanner]], load_progress(city[Scanner]))

\* C19: whenever no shard write is under way (right after a termination
\* included), a stored checkpoint whose fetch returned a panorama id is the key of
\* a record some shard holds.
C19_PersistBeforeCheckpoint ==
  (/\ mode = "sweep"
   /\ pc[Scanner] # "sc_dump"
   /\ load_progress(city[Scanner]) # <<>>
   /\ ~h_nopano)
    => load_progress(city[Scanner]) \in StoredKeys

\* C20: when the progress file parses, the mapping save_progress(region, c) writes
\* holds c for that region and, for every other region, the entry the file held
\* and no entry the file did not hold; the call writes exactly that mapping, and
\* no step of it touches a shard file or the counter file.
C20_SaveProgressFrame ==
  /\ [](mode = "progress"
          => \A p \in Procs :
               (pc[p] = "sp_write" /\ Parses(progress))
                 => /\ progress_data[p][city[p]] = cur[p]
                    /\ DOMAIN progress_data[p] = DOMAIN progress.data \cup {city[p]}
                    /\ \A r \in DOMAIN progress.data \ {city[p]} :
                         progress_data[p][r] = progress.data[r])
  /\ [][mode = "progress"
          => /\ UNCHANGED <<shards, total_request>>
             /\ \A p \in Procs :
                  (pc[p] = "sp_dump" /\ pc'[p] = "idle")
                    => progress' = OkFile(progress_data[p])]_vars

C20_Witness ==
  /\ mode = "progress"
  /\ \A p \in Procs : pc[p] = "idle"
  /\ Callers = Procs
  /\ Parses(progress)
  /\ DOMAIN progress.data = {"Bursa", "ankara", "St.Ives"}
  /\ progress.data["Bursa"] = <<3, 3>>
  /\ \A p \in Procs : progress.data[city[p]] = cur[p]

\* the sweep has just run the dedup check for cur and no file has changed since
Checked == mode = "sweep" /\ pc[Scanner] \in {"fetch", "advance"} /\ ~h_fetched

\* C21: is_saved_across_files returns true exactly when some shard of the region
\* that parses holds the coordinate key; a shard that does not parse neither ends
\* the check nor hides a key another shard holds.
C21_LenientContains ==
  Checked
    => /\ shards = h_shards0
       /\ known <=> \E n \in DOMAIN shards :
                      /\ shards[n].st = "ok"
                      /\ Key(cur[Scanner][1], cur[Scanner][2]) \in DOMAIN shards[n].data

C21_Witness ==
  /\ Checked
  /\ known
  /\ \E n \in DOMAIN shards : shards[n].st = "corrupt"
  /\ cur[Scanner] \in StoredKeys

\* C22: after any sequence of save_coord calls on a region that had no shard
\* files, the shard numbers present are 0..k without gap, every shard below k
\* holds exactly limit entries and shard k holds between 1 and limit entries.
C22_ContiguousShards ==
  (mode = "shard" /\ pc[Scanner] = "idle" /\ h_calls # <<>>)
    => /\ DOMAIN shards = 0..HighestShard
       /\ \A n \in 0..(HighestShard - 1) : ShardSize(n) = file_limit
       /\ Parses(shards[HighestShard])
       /\ ShardSize(HighestShard) >= 1
       /\ ShardSize(HighestShard) <= file_limit

C22_Witness ==
  /\ mode = "shard"
  /\ pc[Scanner] = "idle"
  /\ DOMAIN shards = {0, 1, 2}
  /\ ShardSize(2) = 1

\* C23: once a save_progress of the scan has completed for the region, a load by
\* the status script made while the scan is saving again returns a checkpoint,
\* never (None, None).
C23_StatusReaderConsistent ==
  [][(mode = "progress" /\ h_saved /\ pc[Reader] = "lp_load" /\ pc'[Reader] = "idle")
      => cur'[Reader] # <<>>]_vars

====
